---- MODULE Spec2Model ----
(***************************************************************************)
(* News article POS analyzer (src/main.py): fetch_article, analyze_pos and *)
(* the "Analyze Article" button handler of the Streamlit script.          *)
(*                                                                         *)
(* Strings are TLA+ strings.  A parsed document is a sequence of element   *)
(* nodes in document order; each node carries its tag name, its class      *)
(* attribute (as written, "" when absent), the text directly inside it     *)
(* before its child elements ("" when there is none), and the index of its *)
(* parent element (0 for a child of the document root).                    *)
(***************************************************************************)
EXTENDS Integers, Sequences, FiniteSets, TLC

VARIABLES url, web, pc, result, ui, metrics, pos_tags, pos_counts, df, top_10,
          pos_examples, shown, calls

vars == <<url, web, pc, result, ui, metrics, pos_tags, pos_counts, df, top_10,
          pos_examples, shown, calls>>

(***************************************************************************)
(* Bounds of the model.                                                    *)
(***************************************************************************)
MaxNodes == 2       \* elements per served document
MaxRep == 7         \* tokens of a text tagged freely with two tags
MaxWide == 12       \* tokens of a text tagged with up to 14 tags

(***************************************************************************)
(* Program constants.                                                      *)
(***************************************************************************)
PREVIEW_CHARS == 500
TOP_N == 10
MAX_EXAMPLES == 5

Min(a, b) == IF a < b THEN a ELSE b

(***************************************************************************)
(* str helpers                                                             *)
(***************************************************************************)
Ch(s, i) == SubSeq(s, i, i)

IsSpace(c) == c = " "

\* str.strip(): drop leading and trailing whitespace
Strip(s) ==
    LET keep == {i \in 1..Len(s) : ~IsSpace(Ch(s, i))}
    IN  IF keep = {} THEN ""
        ELSE LET lo == CHOOSE i \in keep : \A j \in keep : i <= j
                 hi == CHOOSE i \in keep : \A j \in keep : j <= i
             IN  SubSeq(s, lo, hi)

\* sep.join(parts)
RECURSIVE Join(_, _)
Join(parts, sep) ==
    IF parts = <<>> THEN ""
    ELSE IF Len(parts) = 1 THEN parts[1]
    ELSE parts[1] \o sep \o Join(Tail(parts), sep)

\* Maximal runs of non-whitespace characters of s, left to right, scanning
\* from position i with the current run cur.
RECURSIVE SplitFrom(_, _, _)
SplitFrom(s, i, cur) ==
    IF i > Len(s) THEN (IF cur = "" THEN <<>> ELSE <<cur>>)
    ELSE IF IsSpace(Ch(s, i))
         THEN (IF cur = "" THEN <<>> ELSE <<cur>>) \o SplitFrom(s, i + 1, "")
         ELSE SplitFrom(s, i + 1, cur \o Ch(s, i))

\* value.split(): the whitespace-separated words (class attribute values)
Split(s) == SplitFrom(s, 1, "")

\* sub in s
Contains(s, sub) ==
    \E i \in 1..(Len(s) - Len(sub) + 1) : SubSeq(s, i, i + Len(sub) - 1) = sub

\* s[:n]
Prefix(s, n) == SubSeq(s, 1, Min(n, Len(s)))

Range(f) == {f[i] : i \in DOMAIN f}

(***************************************************************************)
(* The parsed tree (BeautifulSoup(response.content, 'html.parser')).       *)
(* A soup is [nodes |-> document, alive |-> indices still in the tree].    *)
(***************************************************************************)
RECURSIVE Ancestors(_, _)
Ancestors(nodes, i) ==
    IF nodes[i].parent = 0 THEN {}
    ELSE {nodes[i].parent} \cup Ancestors(nodes, nodes[i].parent)

\* the element i and everything below it
Subtree(nodes, i) == {i} \cup {j \in DOMAIN nodes : i \in Ancestors(nodes, j)}

Parse(doc) == [nodes |-> doc, alive |-> DOMAIN doc]

\* soup([names]) == soup.find_all([names]): the elements with one of the tags
FindAll(soup, names) == {i \in soup.alive : soup.nodes[i].tag \in names}

\* tag.decompose() for every tag of the set found
DecomposeAll(soup, found) ==
    [soup EXCEPT !.alive = @ \ UNION {Subtree(soup.nodes, i) : i \in found}]

NOISE_TAGS == {"script", "style", "nav", "header", "footer"}

\* the removal with nav left out of the list
RemoveNoiseSkipNav(soup) == DecomposeAll(soup, FindAll(soup, NOISE_TAGS \ {"nav"}))

\* for script in soup(['script', 'style', 'nav', 'header', 'footer']): script.decompose()
RemoveNoise(soup) == DecomposeAll(soup, FindAll(soup, NOISE_TAGS))

\* the element's class attribute as the parser keeps it: the list of its words
ClassList(node) == Split(node.class)

\* the list with its first two selectors in the other order
selectorsSwapped ==
    << [kind |-> "class", arg |-> "article-content"],
       [kind |-> "tag", arg |-> "article"],
       [kind |-> "class", arg |-> "story-content"],
       [kind |-> "attr_contains", arg |-> "article"],
       [kind |-> "attr_contains", arg |-> "content"] >>

\* the CSS selectors of fetch_article, in the order tried
selectors ==
    << [kind |-> "tag", arg |-> "article"],
       [kind |-> "class", arg |-> "article-content"],
       [kind |-> "class", arg |-> "story-content"],
       [kind |-> "attr_contains", arg |-> "article"],
       [kind |-> "attr_contains", arg |-> "content"] >>

\* does the element match the selector: a type selector, a class selector
\* (one of the class words equals the name) or [class*="value"] (the class
\* attribute is present and its value, the words joined by one space,
\* contains the value)
Matches(node, sel) ==
    CASE sel.kind = "tag" -> node.tag = sel.arg
      [] sel.kind = "class" -> sel.arg \in Range(ClassList(node))
      [] sel.kind = "attr_contains" ->
            /\ node.class # ""
            /\ Contains(Join(ClassList(node), " "), sel.arg)

\* soup.select_one(selector): the first match in document order, 0 for None
SelectOne(soup, sel) ==
    LET found == {i \in soup.alive : Matches(soup.nodes[i], sel)}
    IN  IF found = {} THEN 0
        ELSE CHOOSE i \in found : \A j \in found : i <= j

\* the set s of indices as the sequence of its members in increasing order
RECURSIVE InOrder(_)
InOrder(s) ==
    IF s = {} THEN <<>>
    ELSE LET m == CHOOSE i \in s : \A j \in s : i <= j
         IN  <<m>> \o InOrder(s \ {m})

\* the strings get_text(strip=True) keeps of element e: the text nodes at or
\* below e in document order whose stripped text is not empty
TextSources(soup, e) ==
    SelectSeq(InOrder(Subtree(soup.nodes, e) \cap soup.alive),
              LAMBDA j : Strip(soup.nodes[j].text) # "")

StrippedOf(soup, srcs) == [k \in 1..Len(srcs) |-> Strip(soup.nodes[srcs[k]].text)]

\* tag.get_text(separator=sep, strip=True)
GetText(soup, e, sep) == Join(StrippedOf(soup, TextSources(soup, e)), sep)

(***************************************************************************)
(* fetch_article                                                           *)
(***************************************************************************)
StatusText(status) ==
    CASE status = 200 -> "200" [] status = 300 -> "300"
      [] status = 404 -> "404" [] status = 500 -> "500"

\* requests.get(url, headers=headers, timeout=10): the exception it raises,
\* "" when it returns a response
GetError(u, w) ==
    CASE w.kind = "timeout" ->
            "HTTPSConnectionPool(host='example.com', port=443): Read timed out. (read timeout=10)"
      [] w.kind = "connection" ->
            "HTTPSConnectionPool(host='example.com', port=443): Max retries exceeded with url: /article"
      [] OTHER -> ""

\* response.raise_for_status(): the HTTPError it raises for a 4xx or 5xx
\* status, "" when it returns
RaiseForStatus(u, w) ==
    IF 400 <= w.status /\ w.status < 500
    THEN StatusText(w.status) \o " Client Error: Not Found for url: " \o u
    ELSE IF 500 <= w.status /\ w.status < 600
    THEN StatusText(w.status) \o " Server Error: Internal Server Error for url: " \o u
    ELSE ""

\* the selector loop going on to the next selector when the element selected
\* has no text
RECURSIVE TrySelectorsSkipEmpty(_, _)
TrySelectorsSkipEmpty(soup, k) ==
    IF k > Len(selectors) THEN [selector |-> 0, content |-> 0]
    ELSE LET content == SelectOne(soup, selectors[k])
         IN  IF content # 0 /\ GetText(soup, content, " ") # ""
             THEN [selector |-> k, content |-> content]
             ELSE TrySelectorsSkipEmpty(soup, k + 1)

\* for selector in selectors[k..]: content = soup.select_one(selector);
\* if content: ... break.  The index of the selector that matched and the
\* element it selected, 0 and 0 when the loop ends without a match.
RECURSIVE TrySelectors(_, _)
TrySelectors(soup, k) ==
    IF k > Len(selectors) THEN [selector |-> 0, content |-> 0]
    ELSE LET content == SelectOne(soup, selectors[k])
         IN  IF content # 0 THEN [selector |-> k, content |-> content]
             ELSE TrySelectors(soup, k + 1)

\* the concatenation of the sequences of a sequence
RECURSIVE Flatten(_)
Flatten(ss) == IF ss = <<>> THEN <<>> ELSE Head(ss) \o Flatten(Tail(ss))

\* paragraphs = soup.find_all('p');
\* ' '.join([p.get_text(strip=True) for p in paragraphs])
ParagraphText(soup) ==
    LET paragraphs == InOrder(FindAll(soup, {"p"}))
    IN  [text |-> Join([k \in 1..Len(paragraphs) |-> GetText(soup, paragraphs[k], "")], " "),
         sources |-> Flatten([k \in 1..Len(paragraphs) |-> TextSources(soup, paragraphs[k])])]

\* if article_text: / if not article_text: a str is true when it is not empty
IsTruthyAlways(str) == TRUE

IsTruthy(str) == str # ""

\* return None, str(e)
Failure(msg) ==
    [tuple |-> TRUE, text |-> "", error |-> msg, selector |-> 0, content |-> 0,
     loop_text |-> "", fallback |-> FALSE, sources |-> <<>>]

\* the part of fetch_article after raise_for_status: the text returned, with
\* the selector that matched and the element it selected (0 when none), the
\* value of article_text when the selector loop ends, whether the paragraph
\* fallback ran, and the text nodes the returned text is made of
Extract(doc) ==
    LET soup == RemoveNoise(Parse(doc))
        hit == TrySelectors(soup, 1)
        loop_text == IF hit.content # 0 THEN GetText(soup, hit.content, " ") ELSE ""
        para == ParagraphText(soup)
    IN  IF IsTruthy(loop_text)
        THEN [tuple |-> FALSE, text |-> loop_text, error |-> "",
              selector |-> hit.selector, content |-> hit.content,
              loop_text |-> loop_text, fallback |-> FALSE,
              sources |-> TextSources(soup, hit.content)]
        ELSE [tuple |-> FALSE, text |-> para.text, error |-> "",
              selector |-> hit.selector, content |-> hit.content,
              loop_text |-> loop_text, fallback |-> TRUE,
              sources |-> para.sources]

\* fetch_article without the call of raise_for_status
fetch_articleNoRaise(u, w) ==
    IF GetError(u, w) # "" THEN Failure(GetError(u, w))
    ELSE Extract(w.doc)

\* fetch_article(url): the value returned, a string (tuple = FALSE) or the
\* pair (None, str(e)) (tuple = TRUE)
fetch_article(u, w) ==
    IF GetError(u, w) # "" THEN Failure(GetError(u, w))
    ELSE IF RaiseForStatus(u, w) # "" THEN Failure(RaiseForStatus(u, w))
    ELSE Extract(w.doc)

(***************************************************************************)
(* analyze_pos and the report derived from it                              *)
(***************************************************************************)
\* word_tokenize(text) on text made of lower-case letters and blanks: the
\* whitespace-separated words
word_tokenize(text) == Split(text)

\* pos_tag(tokens): the tagger is a black box; tagging is the tag it gives
\* to each position
pos_tag(tokens, tagging) == [i \in 1..Len(tokens) |-> <<tokens[i], tagging[i]>>]

\* the index of key in the item sequence c, 0 when absent
KeyIndex(c, key) ==
    IF \E i \in 1..Len(c) : c[i][1] = key
    THEN CHOOSE i \in 1..Len(c) : c[i][1] = key
    ELSE 0

\* a count that misses an item equal to the one before it
RECURSIVE CounterSkipRepeat(_)
CounterSkipRepeat(items) ==
    IF items = <<>> THEN <<>>
    ELSE LET c == CounterSkipRepeat(SubSeq(items, 1, Len(items) - 1))
             x == items[Len(items)]
             i == KeyIndex(c, x)
         IN  IF i = 0 THEN Append(c, <<x, 1>>)
             ELSE IF items[Len(items) - 1] = x THEN c
             ELSE [c EXCEPT ![i] = <<x, c[i][2] + 1>>]

\* Counter(items) as its (key, count) items in insertion order
RECURSIVE Counter(_)
Counter(items) ==
    IF items = <<>> THEN <<>>
    ELSE LET c == Counter(SubSeq(items, 1, Len(items) - 1))
             x == items[Len(items)]
             i == KeyIndex(c, x)
         IN  IF i = 0 THEN Append(c, <<x, 1>>)
             ELSE [c EXCEPT ![i] = <<x, c[i][2] + 1>>]

\* analyze_pos(text): (pos_tags, pos_counts)
analyze_pos(text, tagging) ==
    LET tokens == word_tokenize(text)
        tagged == pos_tag(tokens, tagging)
    IN  [pos_tags |-> tagged,
         pos_counts |-> Counter([i \in 1..Len(tagged) |-> tagged[i][2]])]

\* x inserted before the items of its own count
InsertBefore(s, x) ==
    LET n == Cardinality({i \in 1..Len(s) : s[i][2] > x[2]})
    IN  SubSeq(s, 1, n) \o <<x>> \o SubSeq(s, n + 1, Len(s))

\* insert item x into the sequence s sorted by descending count, after the
\* items whose count is at least x's
InsertStable(s, x) ==
    LET n == Cardinality({i \in 1..Len(s) : s[i][2] >= x[2]})
    IN  SubSeq(s, 1, n) \o <<x>> \o SubSeq(s, n + 1, Len(s))

\* Counter.most_common(): sorted(items, key=count, reverse=True), stable
RECURSIVE most_common(_)
most_common(c) ==
    IF c = <<>> THEN <<>>
    ELSE InsertStable(most_common(SubSeq(c, 1, Len(c) - 1)), c[Len(c)])

\* Counter.most_common(n) / DataFrame.head(n): the first n items
Head_n(s, n) == SubSeq(s, 1, Min(n, Len(s)))

POS_DESCRIPTIONS ==
    [t \in {"NN", "NNS", "NNP", "NNPS", "VB", "VBD", "VBG", "VBN", "VBP", "VBZ",
            "JJ", "JJR", "JJS", "RB", "RBR", "RBS", "PRP", "PRP$", "DT", "IN",
            "CC", "CD", "TO", "MD"} |->
        CASE t = "NN" -> "Noun, singular"
          [] t = "NNS" -> "Noun, plural"
          [] t = "NNP" -> "Proper noun, singular"
          [] t = "NNPS" -> "Proper noun, plural"
          [] t = "VB" -> "Verb, base form"
          [] t = "VBD" -> "Verb, past tense"
          [] t = "VBG" -> "Verb, gerund/present participle"
          [] t = "VBN" -> "Verb, past participle"
          [] t = "VBP" -> "Verb, non-3rd person singular present"
          [] t = "VBZ" -> "Verb, 3rd person singular present"
          [] t = "JJ" -> "Adjective"
          [] t = "JJR" -> "Adjective, comparative"
          [] t = "JJS" -> "Adjective, superlative"
          [] t = "RB" -> "Adverb"
          [] t = "RBR" -> "Adverb, comparative"
          [] t = "RBS" -> "Adverb, superlative"
          [] t = "PRP" -> "Personal pronoun"
          [] t = "PRP$" -> "Possessive pronoun"
          [] t = "DT" -> "Determiner"
          [] t = "IN" -> "Preposition/subordinating conjunction"
          [] t = "CC" -> "Coordinating conjunction"
          [] t = "CD" -> "Cardinal number"
          [] t = "TO" -> "to"
          [] t = "MD" -> "Modal"]

\* POS_DESCRIPTIONS.get(tag, 'Other')
Describe(tag) == IF tag \in DOMAIN POS_DESCRIPTIONS THEN POS_DESCRIPTIONS[tag] ELSE "Other"

\* the rows of df: one per item of pos_counts.most_common()
DataFrame(counts) ==
    LET mc == most_common(counts)
    IN  [k \in 1..Len(mc) |->
            [tag |-> mc[k][1], description |-> Describe(mc[k][1]), count |-> mc[k][2]]]

\* the scan without the limit on the length of a list
RECURSIVE ExamplesNoLimit(_, _)
ExamplesNoLimit(tagged, n) ==
    IF n = 0 THEN <<>>
    ELSE LET ex == ExamplesNoLimit(tagged, n - 1)
             word == tagged[n][1]
             tag == tagged[n][2]
             i == KeyIndex(ex, tag)
         IN  IF i = 0 THEN Append(ex, <<tag, <<word>> >>)
             ELSE [ex EXCEPT ![i] = <<tag, Append(ex[i][2], word)>>]

\* the pos_examples dictionary after the first n tokens of the scan, as its
\* (tag, words) items in insertion order
RECURSIVE Examples(_, _)
Examples(tagged, n) ==
    IF n = 0 THEN <<>>
    ELSE LET ex == Examples(tagged, n - 1)
             word == tagged[n][1]
             tag == tagged[n][2]
             i == KeyIndex(ex, tag)
             ex1 == IF i = 0 THEN Append(ex, <<tag, <<>> >>) ELSE ex
             j == KeyIndex(ex1, tag)
         IN  IF Len(ex1[j][2]) < MAX_EXAMPLES
             THEN [ex1 EXCEPT ![j] = <<tag, Append(ex1[j][2], word)>>]
             ELSE ex1

\* pos_examples.get(tag_name, [])
ExamplesGet(ex, tag) == IF KeyIndex(ex, tag) = 0 THEN <<>> ELSE ex[KeyIndex(ex, tag)][2]

\* the lines written in the "Sample Words by POS Tag" expander
SampleLines(counts, ex) ==
    LET top == Head_n(most_common(counts), TOP_N)
    IN  [k \in 1..Len(top) |->
            [tag |-> top[k][1], description |-> Describe(top[k][1]),
             words |-> Join(ExamplesGet(ex, top[k][1]), ", ")]]

(***************************************************************************)
(* Inputs: the URL typed, what the server answers, what the tagger returns *)
(***************************************************************************)
DEFAULT_URL == "https://timesofindia.indiatimes.com/articleshow/125303507.cms"

Urls == {"", DEFAULT_URL}

DivClasses == {"", "article-content", "story-content", "article-body", "content-sidebar"}

BodyTags == {"article", "p"}

NoiseTagsServed == {"nav", "footer", "script"}

NodeTexts == {"", "a", " b "}

\* the elements a served document is made of, without their place in the tree
NodeKinds ==
    {[tag |-> "div", class |-> c, text |-> t] : c \in DivClasses, t \in NodeTexts}
    \cup {[tag |-> g, class |-> "", text |-> t] : g \in BodyTags, t \in NodeTexts}
    \cup {[tag |-> g, class |-> "", text |-> "a"] : g \in NoiseTagsServed}

\* the parent of every element of a tree of n elements in document order:
\* the parent of element i is the root or an element on the path from the
\* root to element i - 1
ParentVecs(n) ==
    {pv \in [1..n -> 0..(n - 1)] :
        \A i \in 1..n :
            /\ pv[i] < i
            /\ (i > 1 /\ pv[i] # 0) =>
                 \/ pv[i] = i - 1
                 \/ pv[i] \in Ancestors([j \in 1..n |-> [parent |-> pv[j]]], i - 1)}

\* the parser reads the content of a script element as text, never as elements
DocsOf(n) ==
    {d \in {[i \in 1..n |-> [tag |-> k[i].tag, class |-> k[i].class,
                              text |-> k[i].text, parent |-> pv[i]]] :
                k \in [1..n -> NodeKinds], pv \in ParentVecs(n)} :
        \A i \in 1..n : d[i].parent # 0 => d[d[i].parent].tag # "script"}

Response(status, doc) == [kind |-> "response", status |-> status, doc |-> doc]

\* the fetches that end without a document to parse
FailedWebs ==
    {[kind |-> "timeout", status |-> 0, doc |-> <<>>],
     [kind |-> "connection", status |-> 0, doc |-> <<>>],
     Response(404, <<>>), Response(500, <<>>)}

\* no URL, no server
NoServer == [kind |-> "none", status |-> 0, doc |-> <<>>]

\* what the server at the URL may answer: no answer in time, no connection, an
\* error status, a document with status 200, or a small document with status 300
IsWeb(w) ==
    \/ w \in FailedWebs
    \/ \E n \in 0..MaxNodes : \E d \in DocsOf(n) : w = Response(200, d)
    \/ \E d \in DocsOf(1) : w = Response(300, d)

TagList == <<"NN", "VB", "JJ", "DT", "IN", "RB", "NNS", "VBD", "PRP", "CC", "CD",
             "TO", "MD", ".">>

\* the tag sequences the tagger may return for n tokens: any sequence of two
\* tags for a text of up to MaxRep tokens; for a longer one a cycle through k
\* tags, the last token tagged as the token at position rep
Taggings(n) ==
    IF n <= MaxRep THEN [1..n -> {"NN", "VB"}]
    ELSE {[i \in 1..n |->
              TagList[(((IF i = n THEN rep - 1 ELSE i - 1) * step) % k) + 1]] :
             k \in 3..Len(TagList), rep \in 1..n, step \in 1..2}

Words == {"a", "b"}

\* the texts analysed on their own: every text of up to MaxRep words, and the
\* texts of more words up to MaxWide that repeat one word or alternate two
Texts ==
    {Join(ws, " ") : ws \in UNION {[1..n -> Words] : n \in 0..MaxRep}}
    \cup {Join([i \in 1..n |-> IF i % m = 0 THEN "b" ELSE "a"], " ") :
             n \in (MaxRep + 1)..MaxWide, m \in 2..3}

(***************************************************************************)
(* The script                                                              *)
(***************************************************************************)
NoMetrics == [total_chars |-> 0, total_words |-> 0, unique_tags |-> 0, most_common |-> ""]

W(kind, body) == [w |-> kind, body |-> body]

\* what the script shows and computes from the first line to the button
Blank ==
    /\ ui = <<>>
    /\ metrics = NoMetrics
    /\ pos_tags = <<>>
    /\ pos_counts = <<>>
    /\ df = <<>>
    /\ top_10 = <<>>
    /\ pos_examples = <<>>
    /\ shown = <<>>
    /\ calls = 0

\* nothing is analysed in this run of the script
NoAnalysis ==
    /\ calls' = 0
    /\ metrics' = NoMetrics
    /\ pos_tags' = <<>>
    /\ pos_counts' = <<>>
    /\ df' = <<>>
    /\ top_10' = <<>>
    /\ pos_examples' = <<>>
    /\ shown' = <<>>

NoResult == [tuple |-> FALSE, text |-> "", error |-> "", selector |-> 0,
             content |-> 0, loop_text |-> "", fallback |-> FALSE, sources |-> <<>>]

Init ==
    /\ url = DEFAULT_URL
    /\ IsWeb(web)
    /\ pc = "idle"
    /\ result = NoResult
    /\ Blank

\* the branch for a result that is a string: the else of isinstance(result, tuple)
ShowArticle(article_text, tagging) ==
    IF IsTruthy(article_text)
    THEN LET a == analyze_pos(article_text, tagging)
             rows == DataFrame(a.pos_counts)
             ex == Examples(a.pos_tags, Len(a.pos_tags))
             first == Head_n(most_common(a.pos_counts), 1)
             before == << W("success", "Article fetched successfully!"),
                          W("expander", Prefix(article_text, PREVIEW_CHARS) \o "..."),
                          W("info", "Total characters"),
                          W("subheader", "Parts of Speech Analysis"),
                          W("metric", "Total Words"),
                          W("metric", "Unique POS Tags") >>
         IN  /\ calls' = 1
             /\ pos_tags' = a.pos_tags
             /\ pos_counts' = a.pos_counts
             /\ df' = rows
             /\ IF first = <<>>
                THEN \* pos_counts.most_common(1)[0] raises IndexError
                     /\ ui' = Append(before, W("exception", "IndexError: list index out of range"))
                     /\ metrics' = [total_chars |-> Len(article_text),
                                    total_words |-> Len(a.pos_tags),
                                    unique_tags |-> Len(a.pos_counts),
                                    most_common |-> ""]
                     /\ top_10' = <<>>
                     /\ pos_examples' = <<>>
                     /\ shown' = <<>>
                ELSE /\ ui' = before \o
                              << W("metric", "Most Common Tag"),
                                 W("dataframe", "df"),
                                 W("subheader", "Top 10 Most Frequent POS Tags"),
                                 W("bar_chart", "top_10"),
                                 W("expander", "Sample Words by POS Tag") >>
                     /\ metrics' = [total_chars |-> Len(article_text),
                                    total_words |-> Len(a.pos_tags),
                                    unique_tags |-> Len(a.pos_counts),
                                    most_common |-> first[1][1]]
                     /\ top_10' = Head_n(rows, TOP_N)
                     /\ pos_examples' = ex
                     /\ shown' = SampleLines(a.pos_counts, ex)
    ELSE /\ ui' = << W("error", "Could not extract text from the article. Please try a different URL.") >>
         /\ NoAnalysis

\* the user edits the URL field: the script runs again with the button not
\* pressed and shows the empty page; web is what the server at the new URL
\* will answer
EditUrl ==
    /\ \E u \in Urls :
          /\ u # url
          /\ url' = u
          /\ IF u = "" THEN web' = NoServer ELSE IsWeb(web')
    /\ pc' = "idle"
    /\ result' = NoResult
    /\ ui' = <<>>
    /\ NoAnalysis

\* the user presses "Analyze Article" on the page drawn for the URL typed: the
\* script runs with the button pressed.  (A second press on the page this
\* draws runs the script again on the same URL, answer and tagger, and draws
\* the same page.)
AnalyzeArticle ==
    /\ pc = "idle"
    /\ pc' = "done"
    /\ UNCHANGED <<url, web>>
    /\ IF url = ""
       THEN /\ ui' = << W("warning", "Please enter a valid URL") >>
            /\ result' = NoResult
            /\ NoAnalysis
       ELSE LET r == fetch_article(url, web)
            IN  /\ result' = r
                /\ IF r.tuple
                   THEN /\ ui' = << W("error", "Error fetching article: " \o r.error) >>
                        /\ NoAnalysis
                   ELSE \E tagging \in Taggings(Len(word_tokenize(r.text))) :
                            ShowArticle(r.text, tagging)

Next == EditUrl \/ AnalyzeArticle

Spec == Init /\ [][Next]_vars

(***************************************************************************)
(* The analysis on its own: fetch_article has returned a text, the rest of *)
(* the script runs on it.                                                  *)
(***************************************************************************)
InitAnalyze ==
    /\ url = DEFAULT_URL
    /\ web = [kind |-> "response", status |-> 200, doc |-> <<>>]
    /\ pc = "fetched"
    /\ result \in {[NoResult EXCEPT !.text = t] : t \in Texts}
    /\ Blank

AnalyzeText ==
    /\ pc = "fetched"
    /\ pc' = "done"
    /\ UNCHANGED <<url, web, result>>
    /\ \E tagging \in Taggings(Len(word_tokenize(result.text))) :
            ShowArticle(result.text, tagging)

NextAnalyze == AnalyzeText

SpecAnalyze == InitAnalyze /\ [][NextAnalyze]_vars

(***************************************************************************)
(* Properties                                                              *)
(***************************************************************************)
\* the button was pressed with a URL typed, so fetch_article was called
Requested == pc = "done" /\ url # ""

\* fetch_article returned a text
Fetched == Requested /\ ~result.tuple

FETCH_ERROR_PREFIX == "Error fetching article: "

ShowsFetchError ==
    /\ Len(ui) = 1
    /\ ui[1].w = "error"
    /\ ui[1].body = FETCH_ERROR_PREFIX \o result.error

ShowsNoText ==
    ui = << [w |-> "error",
             body |-> "Could not extract text from the article. Please try a different URL."] >>

\* the element is of one of the five kinds removed, or inside one
InNoise(doc, i) ==
    \E j \in {i} \cup Ancestors(doc, i) :
        doc[j].tag \in {"script", "style", "nav", "header", "footer"}

\* the served document without the elements removed
Visible == [nodes |-> web.doc,
            alive |-> {i \in DOMAIN web.doc : ~InNoise(web.doc, i)}]

\* the five heuristics of the extractor, by number
Heuristic(k, node) ==
    CASE k = 1 -> node.tag = "article"
      [] k = 2 -> "article-content" \in Range(Split(node.class))
      [] k = 3 -> "story-content" \in Range(Split(node.class))
      [] k = 4 -> Contains(node.class, "article")
      [] k = 5 -> Contains(node.class, "content")

HeuristicMatches(k) == {i \in Visible.alive : Heuristic(k, web.doc[i])}

\* the number of the earliest heuristic that matches an element, 0 when none does
Earliest ==
    IF \A k \in 1..5 : HeuristicMatches(k) = {} THEN 0
    ELSE CHOOSE k \in 1..5 :
            /\ HeuristicMatches(k) # {}
            /\ \A j \in 1..(k - 1) : HeuristicMatches(j) = {}

FirstOf(set) == CHOOSE i \in set : \A j \in set : i <= j

\* the element the earliest matching heuristic matches first in the document
EarliestElement == FirstOf(HeuristicMatches(Earliest))

\* C1 as stated: when the fetch times out, cannot connect or ends with a status
\* outside 200..299, fetch_article returns a failure with a non-empty
\* description, the page shows it as a fetch error and analyze_pos is not called
C1_AnyNon2xxFails ==
    (/\ Requested
     /\ \/ web.kind \in {"timeout", "connection"}
        \/ web.kind = "response" /\ ~(200 <= web.status /\ web.status < 300))
    => /\ result.tuple
       /\ result.error # ""
       /\ ShowsFetchError
       /\ calls = 0

\* C1 amended: when the fetch times out, cannot connect or ends with a 4xx or
\* 5xx status, fetch_article returns a failure with a non-empty description,
\* the page shows it as a fetch error and analyze_pos is not called
C1_FetchFailure ==
    (/\ Requested
     /\ \/ web.kind \in {"timeout", "connection"}
        \/ web.kind = "response" /\ 400 <= web.status /\ web.status < 600)
    => /\ result.tuple
       /\ result.error # ""
       /\ ShowsFetchError
       /\ calls = 0

C1_Witness ==
    /\ Requested
    /\ web.kind = "response" /\ web.status = 500
    /\ result.tuple /\ ShowsFetchError

\* C2: the selector loop takes the text of the element matched by the earliest
\* of the five heuristics that matches, in the order article element, class
\* article-content, class story-content, class containing "article", class
\* containing "content"; with an article element and an element of class
\* article-content both present, the article element is the one chosen
C2_HeuristicPriority ==
    Fetched =>
        /\ Earliest = 0 => result.selector = 0 /\ result.content = 0 /\ result.loop_text = ""
        /\ Earliest # 0 =>
              /\ result.selector = Earliest
              /\ result.content = EarliestElement
              /\ result.loop_text = GetText(Visible, EarliestElement, " ")
              /\ result.loop_text # "" => result.text = result.loop_text
        /\ (HeuristicMatches(1) # {} /\ HeuristicMatches(2) # {}) =>
              /\ result.content # 0
              /\ web.doc[result.content].tag = "article"

C2_Witness ==
    /\ Fetched
    /\ HeuristicMatches(1) # {} /\ HeuristicMatches(2) # {}
    /\ FirstOf(HeuristicMatches(2)) < FirstOf(HeuristicMatches(1))
    /\ GetText(Visible, FirstOf(HeuristicMatches(2)), " ") \notin {"", result.text}
    /\ result.text = GetText(Visible, FirstOf(HeuristicMatches(1)), " ")
    /\ result.text # ""

\* the whole text of the element: its text nodes in document order, as they are
FullText(soup, e) ==
    LET ids == InOrder(Subtree(soup.nodes, e) \cap soup.alive)
    IN  Join([k \in 1..Len(ids) |-> soup.nodes[ids[k]].text], "")

VisibleParagraphs == InOrder({i \in Visible.alive : web.doc[i].tag = "p"})

\* C3: when no heuristic matches, the text returned is the stripped text of
\* every paragraph element, in document order, joined by single spaces, and
\* the empty string (not a failure) when there is no paragraph
C3_ParagraphFallback ==
    (Fetched /\ Earliest = 0) =>
        /\ result.text =
              Join([k \in 1..Len(VisibleParagraphs) |->
                        Strip(FullText(Visible, VisibleParagraphs[k]))], " ")
        /\ VisibleParagraphs = <<>> => result.text = ""

\* C4: when the fetch succeeds and the heuristics and the paragraph fallback
\* both give no text, the page shows "could not extract text", which is not the
\* fetch error, and analyze_pos is not called
C4_EmptyExtraction ==
    (Fetched /\ result.loop_text = "" /\ result.text = "") =>
        /\ ShowsNoText
        /\ ~ShowsFetchError
        /\ SubSeq(ui[1].body, 1, Len(FETCH_ERROR_PREFIX)) # FETCH_ERROR_PREFIX
        /\ calls = 0

C4_Witness ==
    /\ Fetched
    /\ result.content # 0
    /\ VisibleParagraphs # <<>>
    /\ result.text = ""
    /\ ShowsNoText

TagsOf(tagged) == {tagged[i][2] : i \in DOMAIN tagged}

Positions(tagged, t) == {i \in DOMAIN tagged : tagged[i][2] = t}

RECURSIVE SumCounts(_)
SumCounts(c) == IF c = <<>> THEN 0 ELSE c[1][2] + SumCounts(Tail(c))

\* C5: the frequency mapping analyze_pos returns is the per-tag count of the
\* tagged sequence it returns: the counts add up to the number of tokens, every
\* tag of the sequence is a key counted at least once, no key has count 0 or
\* names a tag of no token
C5_CountsExact ==
    calls = 1 =>
        /\ SumCounts(pos_counts) = Len(pos_tags)
        /\ \A i, j \in DOMAIN pos_counts : pos_counts[i][1] = pos_counts[j][1] => i = j
        /\ {pos_counts[i][1] : i \in DOMAIN pos_counts} = TagsOf(pos_tags)
        /\ \A i \in DOMAIN pos_counts :
              /\ pos_counts[i][2] = Cardinality(Positions(pos_tags, pos_counts[i][1]))
              /\ pos_counts[i][2] >= 1

C5_Witness ==
    /\ pc = "done" /\ calls = 1
    /\ Len(pos_counts) = 2
    /\ pos_counts[1][2] >= 2 /\ pos_counts[2][2] >= 3
    /\ \E i \in 2..Len(pos_tags) : pos_tags[i][2] = pos_tags[i - 1][2]

\* C6: the table, the top-10 chart and the top-10 example list give the tags by
\* descending count, and among equal counts the tag met first in the tagged
\* sequence first; the top-10 displays are the first min(10, number of tags)
\* rows of that ranking
C6_Ranking ==
    (calls = 1 /\ pos_tags # <<>>) =>
        /\ Len(df) = Cardinality(TagsOf(pos_tags))
        /\ {df[i].tag : i \in DOMAIN df} = TagsOf(pos_tags)
        /\ \A i \in DOMAIN df : df[i].count = Cardinality(Positions(pos_tags, df[i].tag))
        /\ \A i, j \in DOMAIN df :
              i < j =>
                 \/ df[i].count > df[j].count
                 \/ /\ df[i].count = df[j].count
                    /\ FirstOf(Positions(pos_tags, df[i].tag))
                         < FirstOf(Positions(pos_tags, df[j].tag))
        /\ top_10 = SubSeq(df, 1, Min(10, Len(df)))
        /\ Len(shown) = Min(10, Len(df))
        /\ \A k \in DOMAIN shown : shown[k].tag = df[k].tag
        /\ metrics.most_common = df[1].tag

C6_Witness ==
    /\ pc = "done" /\ calls = 1
    /\ Len(df) > 10
    /\ Len(top_10) = 10 /\ Len(shown) = 10
    /\ df[1].count > df[2].count
    /\ df[2].count = df[3].count
    /\ FirstOf(Positions(pos_tags, df[1].tag)) > FirstOf(Positions(pos_tags, df[2].tag))

\* the k-th smallest member of a set of positions
Kth(set, k) == CHOOSE i \in set : Cardinality({j \in set : j <= i}) = k

\* C7: the example list of every tag of the tagged sequence is the words of the
\* first min(5, count) tokens with that tag, in token order, a word repeated at
\* another position kept again; no list is longer than 5
C7_Examples ==
    (calls = 1 /\ pos_tags # <<>>) =>
        /\ {pos_examples[i][1] : i \in DOMAIN pos_examples} = TagsOf(pos_tags)
        /\ \A i, j \in DOMAIN pos_examples :
              pos_examples[i][1] = pos_examples[j][1] => i = j
        /\ \A i \in DOMAIN pos_examples :
              LET at == Positions(pos_tags, pos_examples[i][1])
                  ex == pos_examples[i][2]
              IN  /\ Len(ex) = Min(5, Cardinality(at))
                  /\ Len(ex) <= 5
                  /\ \A k \in 1..Len(ex) : ex[k] = pos_tags[Kth(at, k)][1]

C7_Witness ==
    /\ pc = "done" /\ calls = 1
    /\ \E i \in DOMAIN pos_examples :
          /\ Cardinality(Positions(pos_tags, pos_examples[i][1])) > 5
          /\ Len(pos_examples[i][2]) = 5
          /\ pos_examples[i][2][1] = pos_examples[i][2][3]
          /\ pos_examples[i][2][1] # pos_examples[i][2][2]

\* C8: when the element the first matching heuristic selects has no text, no
\* later heuristic is tried, though one may match an element with text, and
\* the text returned is the paragraph fallback's
C8_EmptyMatchFallsBack ==
    (Fetched /\ Earliest # 0 /\ GetText(Visible, EarliestElement, " ") = "") =>
        /\ result.selector = Earliest
        /\ result.content = EarliestElement
        /\ result.fallback
        /\ result.text = ParagraphText(Visible).text

C8_Witness ==
    /\ Fetched
    /\ Earliest # 0
    /\ GetText(Visible, EarliestElement, " ") = ""
    /\ \E k \in (Earliest + 1)..5 :
          /\ HeuristicMatches(k) # {}
          /\ GetText(Visible, FirstOf(HeuristicMatches(k)), " ") \notin {"", result.text}
    /\ result.fallback

\* the characters of s that are not blanks
RECURSIVE NonBlank(_)
NonBlank(s) ==
    IF s = "" THEN ""
    ELSE (IF IsSpace(Ch(s, 1)) THEN "" ELSE Ch(s, 1)) \o NonBlank(SubSeq(s, 2, Len(s)))

\* C9: script, style, nav, header and footer elements are removed before the
\* heuristics and the fallback run: the text returned is made of text nodes
\* none of which lies inside such an element, and the element a heuristic
\* selects is never inside one
C9_NoiseRemoved ==
    Fetched =>
        /\ \A k \in DOMAIN result.sources : ~InNoise(web.doc, result.sources[k])
        /\ NonBlank(result.text) =
              NonBlank(Join([k \in DOMAIN result.sources |->
                                 web.doc[result.sources[k]].text], ""))
        /\ result.content # 0 => ~InNoise(web.doc, result.content)

C9_Witness ==
    /\ Fetched
    /\ \E i \in DOMAIN web.doc :
          /\ web.doc[i].parent # 0
          /\ web.doc[web.doc[i].parent].tag = "nav"
          /\ \E k \in 1..5 : Heuristic(k, web.doc[i])
          /\ Strip(web.doc[i].text) # ""
          /\ result.content # i

\* C10: whenever the text passes the emptiness check and is analysed, the
\* tagged sequence has at least one token, so the most frequent tag is defined
C10_TokensExist ==
    (pc = "done" /\ calls = 1) =>
        /\ Len(pos_tags) >= 1
        /\ metrics.most_common # ""

====
